---- MODULE Spec2Model ----
(***************************************************************************)
(* The two data-processing scripts of dev-templates:                       *)
(*   examples/python/data_processor.py    line mode (plain text file)       *)
(*   examples/python/data_processor 2.py  tabular mode (CSV through pandas) *)
(* A text is a sequence of one-character strings; a CSV file is a sequence *)
(* of lines, each a sequence of field texts.  An optional value (Python's  *)
(* None) is a sequence of length 0, a present value v is <<v>>.            *)
(***************************************************************************)
EXTENDS Integers, Sequences, FiniteSets, TLC

VARIABLES
    prog,       \* which script runs: "line" or "tab"
    pc,         \* position in main() (or "client" when the class is used directly)
    exitCode,   \* process exit status; -1 while the process is running
    raised,     \* the exception the last stage raised, "" for none
    linput,     \* line mode: the input path [exists, readable, text]
    ldata,      \* line mode: the list read_data returned
    results,    \* line mode: the dict analyze_data returned (optional)
    tinput,     \* tabular mode: the input path [exists, lines]
    data,       \* tabular mode: self.data (optional DataFrame)
    stats,      \* tabular mode: the dict process_data returned (optional)
    outdir,     \* tabular mode: the output path on disk
    ret,        \* tabular mode, client use: outcome of the last method call
    saves,      \* tabular mode, client use: save_results calls that returned
    firstSave,  \* tabular mode, client use: the output path after the first of them
    reloaded    \* tabular mode, client use: processed_data.csv loaded again

vars == <<prog, pc, exitCode, raised, linput, ldata, results,
          tinput, data, stats, outdir, ret, saves, firstSave, reloaded>>

lineVars == <<linput, ldata, results>>
tabVars == <<tinput, data, stats, outdir, ret, saves, firstSave, reloaded>>

None == <<>>
Some(v) == <<v>>

(***************************************************************************)
(* Bounds of the model.                                                    *)
(***************************************************************************)
MaxFileLen == 6     \* characters in a line-mode input file
MaxCols == 2        \* columns in a CSV header
MaxRows == 2        \* data lines in a CSV input file
MaxCells == 4       \* MaxCols x MaxRows cap: a file has at most this many cells
MaxSaves == 2       \* save_results calls a client makes

(***************************************************************************)
(* Line mode: data_processor.py                                            *)
(***************************************************************************)
Whitespace == {" ", "\n"}
Alphabet == {"a", " ", "\n"}

Texts == UNION {[1..n -> Alphabet] : n \in 0..MaxFileLen}

\* str.lstrip(): drop leading whitespace.
RECURSIVE lstrip(_)
lstrip(s) ==
    IF s = <<>> THEN <<>>
    ELSE IF Head(s) \in Whitespace THEN lstrip(Tail(s))
    ELSE s

\* str.rstrip(): drop trailing whitespace.
RECURSIVE rstrip(_)
rstrip(s) ==
    IF s = <<>> THEN <<>>
    ELSE IF s[Len(s)] \in Whitespace THEN rstrip(SubSeq(s, 1, Len(s) - 1))
    ELSE s

\* str.strip()
strip(s) == rstrip(lstrip(s))

\* Length of the first line of a non-empty text, its "\n" included (readline).
RECURSIVE FirstLineLen(_)
FirstLineLen(s) ==
    IF s = <<>> THEN 0
    ELSE IF Head(s) = "\n" THEN 1
    ELSE 1 + FirstLineLen(Tail(s))

\* Iterating a text file: the lines in order, each with its terminator.
RECURSIVE FileLines(_)
FileLines(s) ==
    IF s = <<>> THEN <<>>
    ELSE LET n == FirstLineLen(s)
         IN  <<SubSeq(s, 1, n)>> \o FileLines(SubSeq(s, n + 1, Len(s)))

\* [line.strip() for line in f if line.strip()]
RECURSIVE StripNonEmpty(_)
StripNonEmpty(lines) ==
    IF lines = <<>> THEN <<>>
    ELSE LET t == strip(Head(lines))
         IN  (IF t # <<>> THEN <<t>> ELSE <<>>) \o StripNonEmpty(Tail(lines))

\* open(self.input_file, 'r'): the exception it raises, "" for none.
OpenError(f) ==
    IF ~f.exists THEN "FileNotFoundError"
    ELSE IF ~f.readable THEN "PermissionError"
    ELSE ""

\* read_data with the comprehension's filter left out.
read_data_unfiltered(f) ==
    [raised |-> OpenError(f),
     value  |-> IF OpenError(f) = ""
                THEN LET ls == FileLines(f.text)
                     IN  [i \in 1..Len(ls) |-> strip(ls[i])]
                ELSE <<>>]

\* DataProcessor.read_data: an error of open() is logged and raised again.
read_data(f) ==
    [raised |-> OpenError(f),
     value  |-> IF OpenError(f) = "" THEN StripNonEmpty(FileLines(f.text)) ELSE <<>>]

\* Python's a / b on integers: a rational num/den, or ZeroDivisionError.
TrueDiv(a, b) ==
    IF b = 0 THEN [raised |-> "ZeroDivisionError", num |-> 0, den |-> 1]
    ELSE [raised |-> "", num |-> a, den |-> b]

\* sum(len(line) for line in data)
RECURSIVE SumLen(_)
SumLen(d) == IF d = <<>> THEN 0 ELSE Len(Head(d)) + SumLen(Tail(d))

\* sum(1 for line in data if not line)
RECURSIVE CountFalsy(_)
CountFalsy(d) ==
    IF d = <<>> THEN 0
    ELSE (IF Head(d) = <<>> THEN 1 ELSE 0) + CountFalsy(Tail(d))

analyze_data_unguarded(d) ==
    LET avg == TrueDiv(SumLen(d), Len(d))
    IN  [raised |-> avg.raised,
         value  |-> [total_lines |-> Len(d),
                     empty_lines |-> CountFalsy(d),
                     avg_length  |-> [num |-> avg.num, den |-> avg.den]]]

\* DataProcessor.analyze_data
analyze_data(d) ==
    LET avg == IF d # <<>> THEN TrueDiv(SumLen(d), Len(d))
               ELSE [raised |-> "", num |-> 0, den |-> 1]
    IN  [raised |-> avg.raised,
         value  |-> [total_lines |-> Len(d),
                     empty_lines |-> CountFalsy(d),
                     avg_length  |-> [num |-> avg.num, den |-> avg.den]]]

LineInputs ==
    {[exists |-> FALSE, readable |-> FALSE, text |-> <<>>],
     [exists |-> TRUE, readable |-> FALSE, text |-> <<>>]}
    \cup {[exists |-> TRUE, readable |-> TRUE, text |-> t] : t \in Texts}

\* DataProcessor.__init__: the exception it raises, "" for none.
line_init(f) == IF ~f.exists THEN "FileNotFoundError" ELSE ""

\* main(), lines 74-76: the exception is logged and the process exits with 1.
line_main_except(e) == [pc |-> "exit", raised |-> e, exitCode |-> 1]

\* main(), line 67: DataProcessor(args.input_file).
LineConstruct ==
    /\ prog = "line" /\ pc = "start"
    /\ IF line_init(linput) = ""
       THEN /\ pc' = "constructed"
            /\ UNCHANGED <<exitCode, raised>>
       ELSE LET h == line_main_except(line_init(linput))
            IN  pc' = h.pc /\ raised' = h.raised /\ exitCode' = h.exitCode
    /\ UNCHANGED <<prog, lineVars, tabVars>>

\* main(), line 68: processor.process() = analyze_data(read_data()).
LineProcess ==
    /\ prog = "line" /\ pc = "constructed"
    /\ LET r == read_data(linput)
           a == analyze_data(r.value)
           h == line_main_except(IF r.raised # "" THEN r.raised ELSE a.raised)
       IN  IF r.raised # ""
           THEN /\ pc' = h.pc /\ raised' = h.raised /\ exitCode' = h.exitCode
                /\ UNCHANGED <<ldata, results>>
           ELSE IF a.raised # ""
           THEN /\ pc' = h.pc /\ raised' = h.raised /\ exitCode' = h.exitCode
                /\ ldata' = r.value
                /\ UNCHANGED results
           ELSE /\ pc' = "processed"
                /\ ldata' = r.value
                /\ results' = Some(a.value)
                /\ UNCHANGED <<exitCode, raised>>
    /\ UNCHANGED <<prog, linput, tabVars>>

\* main(), lines 70-72: the results are printed and main returns.
LinePrint ==
    /\ prog = "line" /\ pc = "processed"
    /\ pc' = "exit"
    /\ exitCode' = 0
    /\ UNCHANGED <<prog, raised, lineVars, tabVars>>

(***************************************************************************)
(* Tabular mode: data_processor 2.py.  pandas is modelled by what its      *)
(* defaults do on the files of the model: read_csv skips blank lines,      *)
(* takes the first line as the header, pads short lines with NaN, reads    *)
(* an empty or quoted-empty field as NaN and infers one dtype per column;  *)
(* to_csv writes NaN as an empty field and quotes a lone empty field.      *)
(***************************************************************************)
ColNames == <<"a", "b", "c", "d">>
Digits == <<"0", "1", "2", "3", "4", "5", "6", "7">>
QuotedEmpty == "\"\""
NAValues == {"", QuotedEmpty}
IntTexts == {Digits[i] : i \in 1..Len(Digits)}
FloatTexts == {t \o ".0" : t \in IntTexts}
InputFields == {"", QuotedEmpty, "1", "x"}

NaN == [kind |-> "nan", text |-> ""]
EmptyFrame == [columns |-> <<>>, dtypes |-> <<>>, rows |-> <<>>]

\* The lines of the file that hold a record: a blank line is skipped.
RECURSIVE SkipBlankLines(_)
SkipBlankLines(lines) ==
    IF lines = <<>> THEN <<>>
    ELSE (IF Head(lines) = <<"">> THEN <<>> ELSE <<Head(lines)>>)
         \o SkipBlankLines(Tail(lines))

\* A line shorter than the header is filled with empty fields.
PadLine(l, c) == [j \in 1..c |-> IF j <= Len(l) THEN l[j] ELSE ""]

\* A header field left empty is named after its position.
HeaderNames(h) ==
    [j \in 1..Len(h) |-> IF h[j] = "" THEN "Unnamed: " \o Digits[j] ELSE h[j]]

\* The dtype read_csv infers for a column from its field texts.
InferDtype(col) ==
    LET texts == {col[i] : i \in 1..Len(col)}
        vals == texts \ NAValues
    IN  IF Len(col) = 0 THEN "object"
        ELSE IF vals \subseteq IntTexts
        THEN (IF vals = texts THEN "int64" ELSE "float64")
        ELSE IF vals \subseteq IntTexts \cup FloatTexts THEN "float64"
        ELSE "object"

\* The value a field text has in a column of the given dtype.
ParseCell(t, dtype) ==
    IF t \in NAValues THEN NaN
    ELSE IF dtype = "int64" THEN [kind |-> "int", text |-> t]
    ELSE IF dtype = "float64"
    THEN [kind |-> "float", text |-> IF t \in IntTexts THEN t \o ".0" ELSE t]
    ELSE [kind |-> "str", text |-> t]

\* pd.read_csv(path) with the default arguments.
read_csv(f) ==
    IF ~f.exists THEN [raised |-> "FileNotFoundError", value |-> EmptyFrame]
    ELSE LET recs == SkipBlankLines(f.lines)
         IN  IF recs = <<>>
             THEN [raised |-> "EmptyDataError", value |-> EmptyFrame]
             ELSE LET c == Len(Head(recs))
                      body == [i \in 1..(Len(recs) - 1) |-> PadLine(recs[i + 1], c)]
                      dt == [j \in 1..c |->
                                InferDtype([i \in 1..Len(body) |-> body[i][j]])]
                  IN  [raised |-> "",
                       value  |-> [columns |-> HeaderNames(Head(recs)),
                                   dtypes  |-> dt,
                                   rows    |-> [i \in 1..Len(body) |->
                                                  [j \in 1..c |-> ParseCell(body[i][j], dt[j])]]]]

\* csv.writer: a row that is one empty field is written quoted.
WriteRow(fields) == IF fields = <<"">> THEN <<QuotedEmpty>> ELSE fields

FormatCell(cell) == IF cell.kind = "nan" THEN "" ELSE cell.text

\* df.to_csv(path) with the index column written too.
to_csv_with_index(df) ==
    <<WriteRow(<<"">> \o df.columns)>>
    \o [i \in 1..Len(df.rows) |->
           WriteRow(<<Digits[i]>> \o [j \in 1..Len(df.columns) |-> FormatCell(df.rows[i][j])])]

\* df.to_csv(path, index=False)
to_csv(df) ==
    <<WriteRow(df.columns)>>
    \o [i \in 1..Len(df.rows) |->
           WriteRow([j \in 1..Len(df.columns) |-> FormatCell(df.rows[i][j])])]

\* The position of column c in the frame.
ColIndex(df, c) == CHOOSE j \in 1..Len(df.columns) : df.columns[j] = c

ColumnSet(df) == {df.columns[j] : j \in 1..Len(df.columns)}

\* Series.sum() of the booleans isnull() gives for column j.
RECURSIVE SumIsNull(_, _)
SumIsNull(rows, j) ==
    IF rows = <<>> THEN 0
    ELSE (IF Head(rows)[j].kind = "nan" THEN 1 ELSE 0) + SumIsNull(Tail(rows), j)

SumNotNull(rows, j) == Len(rows) - SumIsNull(rows, j)

\* notnull() written for isnull().
isnull_sum_notnull(df) == [c \in ColumnSet(df) |-> SumNotNull(df.rows, ColIndex(df, c))]

\* self.data.isnull().sum().to_dict()
isnull_sum(df) == [c \in ColumnSet(df) |-> SumIsNull(df.rows, ColIndex(df, c))]

\* self.data.describe().to_dict(): the numeric columns, or every column when
\* none is numeric; of a column's summary the model keeps its count.
describe(df) ==
    LET numeric == {c \in ColumnSet(df) : df.dtypes[ColIndex(df, c)] \in {"int64", "float64"}}
        described == IF numeric # {} THEN numeric ELSE ColumnSet(df)
    IN  [c \in described |-> [count |-> Len(df.rows) - SumIsNull(df.rows, ColIndex(df, c))]]

process_data_swapped(d) ==
    IF d = None THEN [raised |-> "ValueError", value |-> None]
    ELSE LET df == d[1]
         IN  [raised |-> "",
              value  |-> Some([row_count      |-> Len(df.columns),
                               column_count   |-> Len(df.rows),
                               missing_values |-> isnull_sum(df),
                               numeric_stats  |-> describe(df)])]

\* process_data without its check: len(None) raises TypeError.
process_data_unchecked(d) ==
    IF d = None THEN [raised |-> "TypeError", value |-> None]
    ELSE LET df == d[1]
         IN  [raised |-> "",
              value  |-> Some([row_count      |-> Len(df.rows),
                               column_count   |-> Len(df.columns),
                               missing_values |-> isnull_sum(df),
                               numeric_stats  |-> describe(df)])]

\* DataProcessor.process_data
process_data(d) ==
    IF d = None THEN [raised |-> "ValueError", value |-> None]
    ELSE LET df == d[1]
         IN  [raised |-> "",
              value  |-> Some([row_count      |-> Len(df.rows),
                               column_count   |-> Len(df.columns),
                               missing_values |-> isnull_sum(df),
                               numeric_stats  |-> describe(df)])]

\* load_data with the raise of line 38 left out: the error is only logged.
load_data_swallowed(f, d) ==
    LET r == read_csv(f)
    IN  IF r.raised # "" THEN [raised |-> "", data |-> d]
        ELSE [raised |-> "", data |-> Some(r.value)]

\* DataProcessor.load_data: the exception it raises and self.data afterwards.
load_data(f, d) ==
    LET r == read_csv(f)
    IN  IF r.raised # "" THEN [raised |-> r.raised, data |-> d]
        ELSE [raised |-> "", data |-> Some(r.value)]

\* pd.DataFrame(stats).to_json(): one entry per index label (the column
\* names), the scalars repeated for each.
to_json(s) ==
    [c \in DOMAIN s.missing_values |->
        [row_count      |-> s.row_count,
         column_count   |-> s.column_count,
         missing_values |-> s.missing_values[c],
         numeric_stats  |-> IF c \in DOMAIN s.numeric_stats
                            THEN Some(s.numeric_stats[c]) ELSE None]]

\* save_results with os.makedirs(self.output_dir) and no exist_ok.
save_results_no_exist_ok(d, s, o) ==
    IF o.kind # "absent" THEN [raised |-> "FileExistsError", outdir |-> o]
    ELSE LET o1 == [o EXCEPT !.kind = "dir", !.statistics = Some(to_json(s))]
         IN  IF d = None THEN [raised |-> "AttributeError", outdir |-> o1]
             ELSE [raised |-> "",
                   outdir |-> [o1 EXCEPT !.processed = Some(to_csv(d[1]))]]

\* DataProcessor.save_results(stats): the exception it raises and the output
\* path afterwards.  makedirs fails when the path is a regular file; with
\* self.data None, statistics.json is written before None.to_csv fails.
save_results(d, s, o) ==
    IF o.kind = "file" THEN [raised |-> "FileExistsError", outdir |-> o]
    ELSE LET o1 == [o EXCEPT !.kind = "dir", !.statistics = Some(to_json(s))]
         IN  IF d = None THEN [raised |-> "AttributeError", outdir |-> o1]
             ELSE [raised |-> "",
                   outdir |-> [o1 EXCEPT !.processed = Some(to_csv(d[1]))]]

\* main(), lines 82-84: the exception is logged and the process exits with 1.
tab_main_swallow(e) == [pc |-> "exit", raised |-> e, exitCode |-> 0]

tab_main_except(e) == [pc |-> "exit", raised |-> e, exitCode |-> 1]

\* main(), line 77: DataProcessor(args.input_file, args.output_dir)
TabConstruct ==
    /\ prog = "tab" /\ pc = "start"
    /\ pc' = "constructed"
    /\ data' = None
    /\ UNCHANGED <<prog, exitCode, raised, lineVars,
                   tinput, stats, outdir, ret, saves, firstSave, reloaded>>

\* main(), line 78: processor.load_data()
TabLoad ==
    /\ prog = "tab" /\ pc = "constructed"
    /\ LET r == load_data(tinput, data)
           h == tab_main_except(r.raised)
       IN  /\ data' = r.data
           /\ IF r.raised # ""
              THEN pc' = h.pc /\ raised' = h.raised /\ exitCode' = h.exitCode
              ELSE pc' = "loaded" /\ UNCHANGED <<raised, exitCode>>
    /\ UNCHANGED <<prog, lineVars, tinput, stats, outdir, ret, saves, firstSave, reloaded>>

\* main(), line 79: stats = processor.process_data()
TabProcess ==
    /\ prog = "tab" /\ pc = "loaded"
    /\ LET r == process_data(data)
           h == tab_main_except(r.raised)
       IN  IF r.raised # ""
           THEN pc' = h.pc /\ raised' = h.raised /\ exitCode' = h.exitCode
                /\ UNCHANGED stats
           ELSE pc' = "processed" /\ stats' = r.value
                /\ UNCHANGED <<raised, exitCode>>
    /\ UNCHANGED <<prog, lineVars, tinput, data, outdir, ret, saves, firstSave, reloaded>>

\* main(), lines 80-81: processor.save_results(stats), then main returns.
TabSave ==
    /\ prog = "tab" /\ pc = "processed"
    /\ LET r == save_results(data, stats[1], outdir)
           h == tab_main_except(r.raised)
       IN  /\ outdir' = r.outdir
           /\ IF r.raised # ""
              THEN pc' = h.pc /\ raised' = h.raised /\ exitCode' = h.exitCode
              ELSE pc' = "exit" /\ exitCode' = 0 /\ UNCHANGED raised
    /\ UNCHANGED <<prog, lineVars, tinput, data, stats, ret, saves, firstSave, reloaded>>

(***************************************************************************)
(* The tabular DataProcessor used directly: a client calls its methods in  *)
(* any order on one object; ret is what the last call raised.              *)
(***************************************************************************)
ClientLoad ==
    /\ pc = "client"
    /\ LET r == load_data(tinput, data)
       IN  /\ data' = r.data
           /\ ret' = [op |-> "load_data", raised |-> r.raised]
    /\ UNCHANGED <<prog, pc, exitCode, raised, lineVars,
                   tinput, stats, outdir, saves, firstSave, reloaded>>

ClientProcess ==
    /\ pc = "client"
    /\ LET r == process_data(data)
       IN  /\ stats' = IF r.raised = "" THEN r.value ELSE stats
           /\ ret' = [op |-> "process_data", raised |-> r.raised]
    /\ UNCHANGED <<prog, pc, exitCode, raised, lineVars,
                   tinput, data, outdir, saves, firstSave, reloaded>>

\* The client passes the report its last process_data returned.
ClientSave ==
    /\ pc = "client"
    /\ stats # None
    /\ saves < MaxSaves
    /\ LET r == save_results(data, stats[1], outdir)
       IN  /\ outdir' = r.outdir
           /\ ret' = [op |-> "save_results", raised |-> r.raised]
           /\ saves' = IF r.raised = "" THEN saves + 1 ELSE saves
           /\ firstSave' = IF r.raised = "" /\ saves = 0 THEN Some(r.outdir)
                           ELSE firstSave
    /\ UNCHANGED <<prog, pc, exitCode, raised, lineVars, tinput, data, stats, reloaded>>

\* A second DataProcessor whose input is the processed_data.csv written
\* here runs load_data.
ClientReload ==
    /\ pc = "client"
    /\ outdir.processed # None
    /\ LET r == load_data([exists |-> TRUE, lines |-> outdir.processed[1]], None)
       IN  /\ reloaded' = r.data
           /\ ret' = [op |-> "reload", raised |-> r.raised]
    /\ UNCHANGED <<prog, pc, exitCode, raised, lineVars,
                   tinput, data, stats, outdir, saves, firstSave>>

(***************************************************************************)
(* Inputs and specifications.                                              *)
(***************************************************************************)
Header(c) == SubSeq(ColNames, 1, c)

\* A data line under a header of c names: 1 to c fields.
DataLines(c) == UNION {[1..w -> InputFields] : w \in 1..c}

CsvFiles ==
    {<<>>} \cup
    UNION {{<<Header(c)>> \o body : body \in [1..n -> DataLines(c)]} :
             <<c, n>> \in {p \in (1..MaxCols) \X (0..MaxRows) : p[1] * p[2] <= MaxCells}}

NoTabInput == [exists |-> FALSE, lines |-> <<>>]
TabInputs == {NoTabInput} \cup {[exists |-> TRUE, lines |-> f] : f \in CsvFiles}

NoOutdir == [kind |-> "absent", statistics |-> None, processed |-> None, other |-> FALSE]

\* The output path before the run: absent, an empty directory, a directory
\* that holds some other file, or a regular file.
Outdirs ==
    {NoOutdir,
     [NoOutdir EXCEPT !.kind = "dir"],
     [NoOutdir EXCEPT !.kind = "dir", !.other = TRUE],
     [NoOutdir EXCEPT !.kind = "file"]}

NoLineInput == [exists |-> FALSE, readable |-> FALSE, text |-> <<>>]
NoRet == [op |-> "", raised |-> ""]

Init ==
    /\ prog \in {"line", "tab"}
    /\ pc = "start" /\ exitCode = -1 /\ raised = ""
    /\ ldata = <<>> /\ results = None
    /\ data = None /\ stats = None
    /\ ret = NoRet /\ saves = 0 /\ firstSave = None /\ reloaded = None
    /\ IF prog = "line"
       THEN linput \in LineInputs /\ tinput = NoTabInput /\ outdir = NoOutdir
       ELSE linput = NoLineInput /\ tinput \in TabInputs /\ outdir \in Outdirs

Next ==
    \/ LineConstruct
    \/ LineProcess
    \/ LinePrint
    \/ TabConstruct
    \/ TabLoad
    \/ TabProcess
    \/ TabSave

Spec == Init /\ [][Next]_vars

ApiInit ==
    /\ prog = "tab"
    /\ pc = "client" /\ exitCode = -1 /\ raised = ""
    /\ linput = NoLineInput /\ ldata = <<>> /\ results = None
    /\ tinput \in TabInputs /\ outdir \in Outdirs
    /\ data = None /\ stats = None
    /\ ret = NoRet /\ saves = 0 /\ firstSave = None /\ reloaded = None

ApiNext ==
    \/ ClientLoad
    \/ ClientProcess
    \/ ClientSave
    \/ ClientReload

ApiSpec == ApiInit /\ [][ApiNext]_vars

(***************************************************************************)
(* Line mode claims.  The input text is described directly, by positions:  *)
(* a line starts at 1 or after a "\n" and runs to its "\n" or to the end.  *)
(***************************************************************************)
LineStarts(t) == {i \in 1..Len(t) : i = 1 \/ t[i - 1] = "\n"}

LineEnd(t, s) ==
    LET nl == {j \in s..Len(t) : t[j] = "\n"}
    IN  IF nl = {} THEN Len(t) ELSE CHOOSE j \in nl : \A k \in nl : j <= k

BlankLine(t, s) == \A j \in s..LineEnd(t, s) : t[j] \in Whitespace

BlankStarts(t) == {s \in LineStarts(t) : BlankLine(t, s)}
TextStarts(t) == {s \in LineStarts(t) : ~BlankLine(t, s)}

\* The line starting at s without its leading and trailing whitespace.
TrimmedLine(t, s) ==
    LET ink == {j \in s..LineEnd(t, s) : t[j] \notin Whitespace}
        lo == CHOOSE j \in ink : \A k \in ink : j <= k
        hi == CHOOSE j \in ink : \A k \in ink : k <= j
    IN  SubSeq(t, lo, hi)

\* The k-th line that is not blank.
KthTextStart(t, k) ==
    CHOOSE s \in TextStarts(t) : Cardinality({u \in TextStarts(t) : u <= s}) = k

LineProcessed == prog = "line" /\ results # None

\* C1: in line mode the report's empty_lines is the number of lines of the
\* input file that are empty after trimming.
C1_EmptyLinesCounted ==
    LineProcessed => results[1].empty_lines = Cardinality(BlankStarts(linput.text))

\* C2: in line mode analyze_data never raises ZeroDivisionError; for an empty
\* Dataset avg_length is 0, otherwise it is the sum of the trimmed line
\* lengths divided by the number of lines.
C2_AvgLengthGuarded ==
    prog = "line" =>
        /\ raised # "ZeroDivisionError"
        /\ (pc # "start" /\ pc # "constructed" /\ linput.exists /\ linput.readable)
              => results # None
        /\ results # None =>
              LET avg == results[1].avg_length
                  chars == {p \in (1..Len(ldata)) \X (1..MaxFileLen) : p[2] <= Len(ldata[p[1]])}
              IN  /\ avg.den # 0
                  /\ ldata = <<>> => avg.num = 0
                  /\ ldata # <<>> => avg.num * Len(ldata) = Cardinality(chars) * avg.den

\* A file of blank lines only has been processed: the Dataset is empty.
C2_Witness ==
    /\ LineProcessed
    /\ linput.text # <<>> /\ ldata = <<>>
    /\ results[1].avg_length.num = 0

\* C3: in line mode read_data returns the trimmed forms of the lines that are
\* not empty after trimming, in order, none of them empty, and total_lines is
\* the length of that sequence.
C3_ReadDataTrimmedNonEmpty ==
    LineProcessed =>
        /\ Len(ldata) = Cardinality(TextStarts(linput.text))
        /\ \A k \in 1..Len(ldata) :
              /\ ldata[k] = TrimmedLine(linput.text, KthTextStart(linput.text, k))
              /\ ldata[k] # <<>>
        /\ results[1].total_lines = Len(ldata)

\* "a\n\na \n" has been processed: a blank line dropped, a line trimmed.
C3_Witness ==
    /\ LineProcessed
    /\ linput.text = <<"a", "\n", "\n", "a", " ", "\n">>
    /\ ldata = << <<"a">>, <<"a">> >>
    /\ results[1].total_lines = 2

(***************************************************************************)
(* Tabular mode claims.  A record of the input is a line after the header  *)
(* that is not blank; the input is well formed when it has a header and    *)
(* every record has as many fields as the header.                          *)
(***************************************************************************)
RecordLines(lines) == {i \in 2..Len(lines) : lines[i] # <<"">>}

WellFormedCsv(lines) ==
    /\ lines # <<>>
    /\ lines[1] # <<"">>
    /\ \A i \in RecordLines(lines) : Len(lines[i]) = Len(lines[1])

TabProcessed == prog = "tab" /\ data # None /\ stats # None

\* C4: in tabular mode, for a well-formed input with N records and C columns,
\* process_data after a successful load_data reports row_count = N and
\* column_count = C.
C4_RowAndColumnCount ==
    (TabProcessed /\ tinput.exists /\ WellFormedCsv(tinput.lines)) =>
        /\ stats[1].row_count = Cardinality(RecordLines(tinput.lines))
        /\ stats[1].column_count = Len(tinput.lines[1])

\* "a\n1\nx\n" has been processed: 2 records, 1 column.
C4_Witness ==
    /\ TabProcessed
    /\ tinput.lines = << <<"a">>, <<"1">>, <<"x">> >>
    /\ stats[1].row_count = 2 /\ stats[1].column_count = 1

RECURSIVE SumOver(_, _)
SumOver(f, S) ==
    IF S = {} THEN 0
    ELSE LET c == CHOOSE x \in S : TRUE IN f[c] + SumOver(f, S \ {c})

\* C5: in tabular mode missing_values maps each column to the number of null
\* cells in it, and the sum over the columns is at most row_count x column_count.
C5_MissingValuesExact ==
    TabProcessed =>
        LET df == data[1]
            mv == stats[1].missing_values
        IN  /\ DOMAIN mv = {df.columns[j] : j \in 1..Len(df.columns)}
            /\ \A j \in 1..Len(df.columns) :
                  mv[df.columns[j]] = Cardinality({i \in 1..Len(df.rows) : df.rows[i][j] = NaN})
            /\ SumOver(mv, DOMAIN mv) <= stats[1].row_count * stats[1].column_count

\* "a,b\n1,1\n1,\n" has been processed: b misses one value, a none.
C5_Witness ==
    /\ TabProcessed
    /\ tinput.lines = << <<"a", "b">>, <<"1", "1">>, <<"1", "">> >>
    /\ stats[1].missing_values["a"] = 0 /\ stats[1].missing_values["b"] = 1

\* C6: when the input path does not exist the run fails with a not-found
\* error at the load stage and produces no output: tabular main exits before
\* process_data and save_results and leaves the output path as it was; the
\* line-mode constructor raises FileNotFoundError before any read or analysis.
C6_MissingInputNoOutput ==
    /\ [](/\ (prog = "tab" /\ ~tinput.exists /\ pc # "start" /\ pc # "constructed") =>
                (/\ pc = "exit" /\ raised = "FileNotFoundError" /\ exitCode = 1
                 /\ data = None /\ stats = None
                 /\ outdir.statistics = None /\ outdir.processed = None)
          /\ (prog = "line" /\ ~linput.exists /\ pc # "start") =>
                (/\ pc = "exit" /\ raised = "FileNotFoundError" /\ exitCode = 1
                 /\ ldata = <<>> /\ results = None))
    /\ [][(prog = "tab" /\ ~tinput.exists) => outdir' = outdir]_vars

\* Tabular main has exited on a missing input; no output directory exists.
C6_Witness ==
    /\ prog = "tab" /\ ~tinput.exists
    /\ pc = "exit" /\ raised = "FileNotFoundError"
    /\ outdir.kind = "absent"

\* C7: process_data on a DataProcessor whose data is still None raises
\* ValueError, returns no report and leaves the processor's state unchanged.
C7_ProcessBeforeLoad ==
    [][(ClientProcess /\ data = None) =>
          (/\ ret'.op = "process_data" /\ ret'.raised = "ValueError"
           /\ stats' = stats /\ stats' = None
           /\ data' = None
           /\ outdir' = outdir /\ tinput' = tinput)]_vars

\* process_data has raised ValueError after a load_data that failed.
C7_Witness ==
    /\ pc = "client"
    /\ ret = [op |-> "process_data", raised |-> "ValueError"]
    /\ ~tinput.exists /\ data = None /\ stats = None

\* The load stage fails on a missing path and on a file with no record line.
LoadFails(f) == ~f.exists \/ \A i \in 1..Len(f.lines) : f.lines[i] = <<"">>

\* C8: every error a stage raises reaches main, which runs no later stage and
\* exits with a non-zero status; the exit status is 0 only when every stage
\* completed.
C8_ErrorsSurfaced ==
    /\ pc # "exit" => exitCode = -1 /\ raised = ""
    /\ pc = "exit" => /\ exitCode \in {0, 1}
                      /\ exitCode = 0 <=> raised = ""
    /\ (pc = "exit" /\ exitCode = 0 /\ prog = "tab") =>
          /\ data # None /\ stats # None
          /\ outdir.kind = "dir"
          /\ outdir.statistics # None /\ outdir.processed # None
    /\ (pc = "exit" /\ exitCode = 0 /\ prog = "line") => results # None
    /\ (prog = "tab" /\ LoadFails(tinput)) =>
          /\ pc \in {"start", "constructed", "exit"}
          /\ data = None /\ stats = None
          /\ outdir.statistics = None /\ outdir.processed = None
          /\ pc = "exit" => raised \in {"FileNotFoundError", "EmptyDataError"}
    /\ (prog = "tab" /\ ~LoadFails(tinput) /\ outdir.kind = "file" /\ pc = "exit") =>
          raised = "FileExistsError"
    /\ (prog = "line" /\ ~(linput.exists /\ linput.readable)) =>
          /\ pc \in {"start", "constructed", "exit"}
          /\ results = None
          /\ pc = "exit" => raised \in {"FileNotFoundError", "PermissionError"}

\* The write stage failed after load and process completed; main exited with 1.
C8_Witness ==
    /\ prog = "tab" /\ pc = "exit"
    /\ raised = "FileExistsError" /\ exitCode = 1
    /\ stats # None

\* A save_results call with a Dataset loaded succeeds unless the output path
\* is a regular file: the directory is created when absent and kept otherwise.
SaveSucceeds ==
    (ret.op = "save_results" /\ data # None /\ outdir.kind # "file") =>
        (ret.raised = "" /\ outdir.kind = "dir")

\* C9 as stated: save_results creates the directory when absent and succeeds
\* when it exists; after any number of successful calls the directory holds
\* exactly statistics.json and processed_data.csv, with the contents they had
\* after the first call.
C9_ExactlyTwoFiles ==
    /\ SaveSucceeds
    /\ saves >= 1 =>
          /\ outdir.kind = "dir"
          /\ outdir.statistics # None /\ outdir.processed # None
          /\ ~outdir.other
          /\ outdir = firstSave[1]

\* C9, amended: save_results creates the directory when absent and succeeds
\* when it exists; after any number of successful calls the directory holds
\* statistics.json and processed_data.csv with the contents they had after
\* the first call, beside the files it held before, which are left in place.
C9_SameContentsAsFirst ==
    /\ SaveSucceeds
    /\ saves >= 1 =>
          /\ outdir.kind = "dir"
          /\ outdir.statistics # None /\ outdir.processed # None
          /\ outdir = firstSave[1]

\* save_results has returned twice, the second time into an existing directory.
C9_Witness ==
    /\ saves >= 2
    /\ ret = [op |-> "save_results", raised |-> ""]
    /\ outdir = firstSave[1]

\* processed_data.csv holds the frame field for field: the header is the
\* column names, a NaN is an empty field, any other cell its text.
HoldsFrame(lines, df) ==
    /\ Len(lines) = Len(df.rows) + 1
    /\ lines[1] = df.columns
    /\ \A i \in 1..Len(df.rows) :
          /\ Len(lines[i + 1]) = Len(df.columns)
          /\ \A j \in 1..Len(df.columns) :
                IF df.rows[i][j] = NaN THEN lines[i + 1][j] \in NAValues
                ELSE lines[i + 1][j] = df.rows[i][j].text

====
